---- MODULE Spec2Model ----
(***************************************************************************)
(* The Lazy K interpreter of src/lazy.cpp as a state machine: the two      *)
(* arenas of expression cells, the copying collector, the root table, the  *)
(* Church character cache, the spine-threading reducer and the I/O driver. *)
(* Addresses are integers: 0 is the null pointer, the static atoms have    *)
(* negative addresses, the cells of space1 and space2 follow ArenaBase.    *)
(***************************************************************************)
EXTENDS Integers, Sequences, FiniteSets, TLC

VARIABLES
  heap_cells,            \* HEAP_SIZE / sizeof(Expr): cells per arena
  mem,                   \* the cells of space1 and space2
  from_space_start,      \* first cell of the active arena
  to_space_start,        \* first cell of the other arena
  next_alloc,            \* bump pointer
  roots,                 \* roots[0 .. root_stack_top-1], as a sequence
  cached_church_chars,   \* the 0..EOFCode table of Church numerals
  pc,                    \* position of the program
  ret_to,                \* who called the outermost partial_eval
  depth,                 \* nesting of partial_eval through the Inc case
  cur, prev,             \* partial_eval's locals
  church,                \* church2int's parameter (the car cell)
  program, stdin,               \* the source text given with -e (or none)
  input,                 \* bytes still unread on standard input
  output,                \* bytes written to standard output
  exit_code,             \* -1 while running
  err,                   \* what was written to stderr, or how the run died
  last_gc,               \* the heap as the latest gc() left it
  snap                   \* what the caller of partial_eval remembered

vars == <<heap_cells, mem, from_space_start, to_space_start, next_alloc, roots,
          cached_church_chars, pc, ret_to, depth, cur, prev, church, program, stdin,
          input, output, exit_code, err, last_gc, snap>>

-----------------------------------------------------------------------------
(* Bounds of the model *)

\* the end-of-stream code, 256 in the source (a byte is 0 .. EOFCode-1)
EOFCode == 3
\* the smallest and the largest arena, in cells
MinHeap == 16
MaxHeap == 27
\* the longest standard input
MaxInput == 3
\* the longest standard output the model follows
MaxOutput == 4
\* the largest program given to the reducer alone, in atoms
MaxLeaves == 4
EvalHeapMin == 8
EvalHeapMax == 13
\* iterations allowed to a loop of the code before it counts as hanging
Fuel == 64
RefHeap == 40
ReadDepth == 12
\* roots[MAX_ROOTS]: 10000 slots in the source, where a byte or the end-of-stream
\* code needs 2 + 2 * 256 of them; here the table holds what the decoding of
\* EOFCode + 1 needs
MAX_ROOTS == 10
\* the largest integer a program emits as its first output value
MaxEmit == 5

(* Program constants *)

\* the largest value of int numeric_arg1
IntMax == 2147483647
\* where the linker put space1 (any address above the numbers a cell can hold)
ArenaBase == 1000
\* sizeof(Expr) / sizeof(Expr*): work-stack entries that fit in one cell
SlotsPerCell == 4

Null == 0

cK    == -1
cS    == -2
cI    == -3
KI    == -4
SI    == -5
KS    == -6
KK    == -7
SKSK  == -8
SIKS  == -9
Iota  == -10
cInc  == -11
cZero == -12

Statics == -12 .. -1

\* Expr::Expr(Type t, Expr* a1 = 0, Expr* a2 = 0)
Expr(t, a1, a2) == [type |-> t, arg1 |-> a1, arg2 |-> a2, forward |-> Null]

\* the bytes of a zero-initialised static array read as an Expr: type 0 is A
ZeroCell == Expr("A", Null, Null)

StaticCell(p) ==
  CASE p = cK    -> Expr("K", Null, Null)
    [] p = cS    -> Expr("S", Null, Null)
    [] p = cI    -> Expr("I", Null, Null)
    [] p = KI    -> Expr("K1", cI, Null)
    [] p = SI    -> Expr("S1", cI, Null)
    [] p = KS    -> Expr("K1", cS, Null)
    [] p = KK    -> Expr("K1", cK, Null)
    [] p = SKSK  -> Expr("S2", KS, cK)
    [] p = SIKS  -> Expr("S2", cI, KS)
    [] p = Iota  -> Expr("S2", SIKS, KK)
    [] p = cInc  -> Expr("Inc", Null, Null)
    [] p = cZero -> Expr("Num", 0, Null)

space1 == ArenaBase + 1
space2(n) == ArenaBase + 1 + n
Arena(n) == (ArenaBase + 1) .. (ArenaBase + 2 * n)

\* a pointer the process can dereference
Mapped(m, p) == p \in Statics \/ p \in DOMAIN m

Deref(m, p) == IF p \in Statics THEN StaticCell(p) ELSE m[p]

-----------------------------------------------------------------------------
(* Heap & collector.  The operators work on a record h of the globals      *)
(* (mem, next_alloc, the arena starts from and to, size, roots, ccc) and   *)
(* of what a call hands back: p (the value returned), e and prev (the two  *)
(* references check_rooted updates), pos and bad (the parser's stream),    *)
(* oom (exit(4) was taken), overlap (the work stack ran into the copied    *)
(* cells), wild (a cell was written outside the active arena), post (the   *)
(* heap as the latest gc() left it).                                       *)

from_space_end(h) == h.from + h.size
to_space_end(h) == h.to + h.size

in_arena(h, p) == p >= h.from /\ p < from_space_end(h)

Ret(h, v) == [h EXCEPT !.p = v]

\* new Expr(t, a1, a2): the cell is written at next_alloc, whatever it is
New(h, t, a1, a2) ==
  [h EXCEPT !.mem = IF h.next_alloc \in DOMAIN h.mem
                    THEN [@ EXCEPT ![h.next_alloc] = Expr(t, a1, a2)] ELSE @,
            !.wild = @ \/ ~in_arena(h, h.next_alloc),
            !.next_alloc = @ + 1,
            !.p = h.next_alloc]

\* *(--work_stack_top) = e written over a cell already copied: entry k lies in
\* the cell c counted from the end of to-space, over its type, arg2, arg1 or
\* forward
Overwritten(cell, k, e) ==
  CASE (k - 1) % SlotsPerCell = 0 -> [cell EXCEPT !.type = "Junk"]
    [] (k - 1) % SlotsPerCell = 1 -> [cell EXCEPT !.arg2 = e]
    [] (k - 1) % SlotsPerCell = 2 -> [cell EXCEPT !.arg1 = e]
    [] OTHER -> [cell EXCEPT !.forward = e]

WriteSlot(g, c, k, e) ==
  IF c <= g.next_alloc /\ c \in DOMAIN g.mem
  THEN [g EXCEPT !.mem = [@ EXCEPT ![c] = Overwritten(@, k, e)], !.overlap = TRUE]
  ELSE g

push_work(g, e) ==
  WriteSlot([g EXCEPT !.work = Append(@, e),
                      !.slots = IF Len(g.work) < Len(@)
                                THEN [@ EXCEPT ![Len(g.work) + 1] = e] ELSE Append(@, e)],
            to_space_end(g) - 1 - (Len(g.work) \div SlotsPerCell), Len(g.work) + 1, e)

pop_work(g) ==
  [g EXCEPT !.work = SubSeq(@, 1, Len(@) - 1), !.p = g.work[Len(g.work)]]

\* copy_object, the case that copies: *next_alloc = *obj; push_work(next_alloc);
\* obj->forward = next_alloc; return next_alloc++
CopyCell(g, obj) ==
  [push_work([g EXCEPT !.mem = [@ EXCEPT ![g.next_alloc] = g.mem[obj]]], g.next_alloc)
     EXCEPT !.mem = [@ EXCEPT ![obj] = [@ EXCEPT !.forward = g.next_alloc]],
            !.next_alloc = g.next_alloc + 1,
            !.p = g.next_alloc]

copy_object_stay(g, obj) == Ret(g, obj)

copy_object(g, obj) ==
  IF ~in_arena(g, obj) THEN Ret(g, obj)
  ELSE IF g.mem[obj].forward # Null THEN Ret(g, g.mem[obj].forward)
  ELSE CopyCell(g, obj)

RootFromP(g, i) == [g EXCEPT !.roots = [@ EXCEPT ![i] = g.p]]
CharFromP(g, i) == [g EXCEPT !.ccc = [@ EXCEPT ![i] = g.p]]
Arg1FromP(g, c) == [g EXCEPT !.mem = [@ EXCEPT ![c] = [@ EXCEPT !.arg1 = g.p]]]
Arg2FromP(g, c) == [g EXCEPT !.mem = [@ EXCEPT ![c] = [@ EXCEPT !.arg2 = g.p]]]

\* gc: "Process the roots"
RECURSIVE GcRoots(_, _)
GcRoots(g, i) ==
  IF i > Len(g.roots) THEN g
  ELSE GcRoots(RootFromP(copy_object(g, g.roots[i]), i), i + 1)

\* gc: the loop over cached_church_chars
RECURSIVE GcChars(_, _)
GcChars(g, i) ==
  IF i > EOFCode THEN g
  ELSE GcChars(CharFromP(copy_object(g, g.ccc[i]), i), i + 1)

\* gc: cursor->arg1 = copy_object(cursor->arg1); cursor->arg2 = copy_object(cursor->arg2)
ScanArg1(g, cursor) == Arg1FromP(copy_object(g, g.mem[cursor].arg1), cursor)
ScanArg2(g, cursor) == Arg2FromP(copy_object(g, g.mem[cursor].arg2), cursor)
Scan(g, cursor) ==
  IF g.mem[cursor].type # "Num" THEN ScanArg2(ScanArg1(g, cursor), cursor) ELSE g

ScanPopped(g) == Scan(g, g.p)

\* gc: the while loop that drains the work stack
RECURSIVE GcDrain(_)
GcDrain(g) == IF Len(g.work) = 0 THEN g ELSE GcDrain(ScanPopped(pop_work(g)))

\* The work stack lives in the last bytes of to-space: entry k overwrote, of the
\* cell it fell in, type (and padding), arg2, arg1, forward, in this order.
WorkStackCell(g, c) ==
  LET first == (to_space_end(g) - 1 - c) * SlotsPerCell + 1
      n == Len(g.slots)
  IN IF c >= g.next_alloc /\ c < to_space_end(g) /\ first <= n
     THEN [type |-> "Junk",
           arg2 |-> IF first + 1 <= n THEN g.slots[first + 1] ELSE g.mem[c].arg2,
           arg1 |-> IF first + 2 <= n THEN g.slots[first + 2] ELSE g.mem[c].arg1,
           forward |-> IF first + 3 <= n THEN g.slots[first + 3] ELSE g.mem[c].forward]
     ELSE g.mem[c]

WorkStackBytes(g) == [g EXCEPT !.mem = [c \in DOMAIN g.mem |-> WorkStackCell(g, c)]]

\* gc: "Set up next_alloc to point into the to-space"
\* (post.was keeps the heap as gc() found it)
GcBegin(h) ==
  [h EXCEPT !.next_alloc = h.to, !.work = <<>>, !.slots = <<>>,
            !.post = [ran |-> FALSE,
                      was |-> [mem |-> h.mem, next_alloc |-> h.next_alloc,
                               from |-> h.from, roots |-> h.roots, ccc |-> h.ccc]]]

\* gc: "Do the swap"
GcSwap(g) ==
  [g EXCEPT !.from = g.to, !.to = g.from, !.work = <<>>, !.slots = <<>>,
            !.post = [ran |-> TRUE, mem |-> g.mem, next_alloc |-> g.next_alloc,
                      from |-> g.to, size |-> g.size, roots |-> g.roots,
                      ccc |-> g.ccc, was |-> g.post.was]]

gc(h) == GcSwap(WorkStackBytes(GcDrain(GcChars(GcRoots(GcBegin(h), 1), 0))))

is_exhausted(h, n) == h.next_alloc + n >= from_space_end(h)

OomExit(h, n) == IF is_exhausted(h, n) THEN [h EXCEPT !.oom = TRUE] ELSE h

oom(h, n) == OomExit(gc(h), n)

check(h, n) == IF is_exhausted(h, n) THEN oom(h, n) ELSE h

\* roots[root_stack_top++] = e; spill: the slot written is past the table
root(h, e) ==
  [h EXCEPT !.roots = Append(@, e), !.spill = @ \/ Len(h.roots) >= MAX_ROOTS]

UnrootBoth_swapped(h) ==
  [h EXCEPT !.e = h.roots[Len(h.roots)],
            !.prev = h.roots[Len(h.roots) - 1],
            !.roots = SubSeq(@, 1, Len(@) - 2)]

\* e2 = unroot(); e1 = unroot(), with e1 and e2 the references e and prev
UnrootBoth(h) ==
  [h EXCEPT !.prev = h.roots[Len(h.roots)],
            !.e = h.roots[Len(h.roots) - 1],
            !.roots = SubSeq(@, 1, Len(@) - 2)]

\* check_rooted(n, e, prev)
check_rooted(h, n) ==
  IF is_exhausted(h, n) THEN UnrootBoth(oom(root(root(h, h.e), h.prev), n)) ELSE h

\* what ends the run inside the heap operations: exit(4) of oom(), or memory
\* written outside the cells the code owns, after which nothing is defined
Corrupted(h) == h.overlap \/ h.wild \/ h.spill
HeapDied(h) == h.oom \/ Corrupted(h)

-----------------------------------------------------------------------------
(* Expression graph helpers *)

\* partial_apply: 1 alloc
partial_apply(h, lhs, rhs) == New(h, "A", lhs, rhs)

\* make_church_char, the end of the case that builds the numeral
CacheNumeral(h, at, ch) ==
  [h EXCEPT !.mem = [@ EXCEPT ![at] = [@ EXCEPT !.arg2 = h.p]],
            !.ccc = [@ EXCEPT ![ch] = at],
            !.p = at]

ClampChar(ch) == IF ch < 0 \/ ch > EOFCode THEN EOFCode ELSE ch

\* make_church_char(ch): the numeral is handed back in p
RECURSIVE make_church_char(_, _)
make_church_char(h, ch) ==
  IF h.ccc[ClampChar(ch)] = Null
  THEN CacheNumeral(make_church_char(New(h, "S2", SKSK, Null), ClampChar(ch) - 1),
                    h.next_alloc, ClampChar(ch))
  ELSE Ret(h, h.ccc[ClampChar(ch)])

\* int Expr::to_number()
to_number_zero(c) == IF c.type = "Num" THEN c.arg1 ELSE 0
to_number(c) == IF c.type = "Num" THEN c.arg1 ELSE -1

RECURSIVE I1End(_, _, _)
I1End(m, p, fuel) ==
  IF fuel = 0 THEN [p |-> p, fault |-> "hang"]
  ELSE IF ~Mapped(m, p) THEN [p |-> p, fault |-> "segv"]
  ELSE IF Deref(m, p).type = "I1" THEN I1End(m, Deref(m, p).arg1, fuel - 1)
  ELSE [p |-> p, fault |-> ""]

Compress(m, c, e) ==
  IF e.fault # "" THEN [mem |-> m, p |-> c, fault |-> e.fault]
  ELSE [mem |-> [m EXCEPT ![c] = [@ EXCEPT !.arg1 = e.p]], p |-> e.p, fault |-> ""]

drop_i1_once(m, c) ==
  IF ~Mapped(m, c) THEN [mem |-> m, p |-> c, fault |-> "segv"]
  ELSE IF Deref(m, c).type = "I1"
  THEN Compress(m, c, [p |-> Deref(m, c).arg1, fault |-> ""])
  ELSE [mem |-> m, p |-> c, fault |-> ""]

\* drop_i1(cur): the memory after the path compression, and the cell found
drop_i1(m, c) ==
  IF ~Mapped(m, c) THEN [mem |-> m, p |-> c, fault |-> "segv"]
  ELSE IF Deref(m, c).type = "I1" THEN Compress(m, c, I1End(m, Deref(m, c).arg1, Fuel))
  ELSE [mem |-> m, p |-> c, fault |-> ""]

RECURSIVE Spine(_, _, _, _)

\* Expr* next = drop_i1(cur->arg1); cur->arg1 = prev; prev = cur; cur = next
SpineStep(d, c, pv, fuel) ==
  IF d.fault # "" THEN [mem |-> d.mem, cur |-> c, prev |-> pv, fault |-> d.fault]
  ELSE Spine([d.mem EXCEPT ![c] = [@ EXCEPT !.arg1 = pv]], d.p, c, fuel - 1)

\* partial_eval's inner while loop: thread the left spine through arg1
Spine(m, c, pv, fuel) ==
  IF fuel = 0 THEN [mem |-> m, cur |-> c, prev |-> pv, fault |-> "hang"]
  ELSE IF Deref(m, c).type = "A" THEN SpineStep(drop_i1(m, m[c].arg1), c, pv, fuel)
  ELSE [mem |-> m, cur |-> c, prev |-> pv, fault |-> ""]

SpineFrom(d, c, pv) ==
  IF d.fault # "" THEN [mem |-> d.mem, cur |-> c, prev |-> pv, fault |-> d.fault]
  ELSE Spine(d.mem, d.p, pv, Fuel)

\* partial_eval, one turn of the for loop up to the test of prev
Walk(m, c, pv) == SpineFrom(drop_i1(m, c), c, pv)

Unthread_early(w) ==
  [mem |-> w.mem, cur |-> w.cur, e |-> Null, prev |-> Null, lhs |-> Null,
   rhs |-> Null, kind |-> IF w.fault # "" THEN w.fault ELSE "return",
   lhs_arg1 |-> Null]

\* partial_eval, from the test of prev to the call of
\* partial_eval_primitive_application(cur, prev): kind says what comes next, the
\* return of cur, or the case of the switch on lhs->type
Unthread(w) ==
  IF w.fault # "" \/ w.prev \notin DOMAIN w.mem
  THEN [mem |-> w.mem, cur |-> w.cur, e |-> Null, prev |-> Null, lhs |-> Null,
        rhs |-> Null,
        kind |-> IF w.fault # "" THEN w.fault
                 ELSE IF w.prev = Null THEN "return" ELSE "segv",
        lhs_arg1 |-> Null]
  ELSE [mem |-> [w.mem EXCEPT ![w.prev] = [@ EXCEPT !.arg1 = w.cur]],
        cur |-> w.cur, e |-> w.prev, prev |-> w.mem[w.prev].arg1,
        lhs |-> w.cur, rhs |-> w.mem[w.prev].arg2,
        kind |-> Deref(w.mem, w.cur).type,
        lhs_arg1 |-> Deref(w.mem, w.cur).arg1]

\* e->type = t; e->arg1 = a1; e->arg2 = a2
Rewrite(m, e, t, a1, a2) ==
  [m EXCEPT ![e] = [@ EXCEPT !.type = t, !.arg1 = a1, !.arg2 = a2]]

\* case S2: e->arg1 = partial_apply(lhs->arg1, rhs); e->arg2 = partial_apply(lhs->arg2, rhs)
S2First(h, lhs, rhs) == Arg1FromP(partial_apply(h, Deref(h.mem, lhs).arg1, rhs), h.e)
S2Second(h, lhs, rhs) == Arg2FromP(partial_apply(h, Deref(h.mem, lhs).arg2, rhs), h.e)
S2Both(h, lhs, rhs) == S2Second(S2First(h, lhs, rhs), lhs, rhs)
S2Checked(h) ==
  IF HeapDied(h) THEN h ELSE S2Both(h, h.mem[h.e].arg1, h.mem[h.e].arg2)

\* case S2, from check_rooted(2, e, prev) on
ApplyS2(h) == S2Checked(check_rooted(h, 2))

\* int getchar(): the byte read, or EOF (-1)
getchar(in) == IF Len(in) > 0 THEN Head(in) ELSE -1

\* case LazyRead: lhs->arg1 = new Expr(S2, &cI, new Expr(K1, make_church_char(getchar())))
LazyHeadDone(h, lhs, at) ==
  [h EXCEPT !.mem = [@ EXCEPT ![at + 1] = [@ EXCEPT !.arg1 = h.p],
                              ![lhs] = [@ EXCEPT !.arg1 = at]]]
LazyHead(h, lhs, ch) ==
  LazyHeadDone(
    make_church_char(New(New(h, "S2", cI, h.next_alloc + 1), "K1", Null, Null), ch),
    lhs, h.next_alloc)

\* case LazyRead: lhs->arg2 = new Expr(K1, new Expr(LazyRead))
LazyTail(h, lhs) ==
  [New(New(h, "K1", h.next_alloc + 1, Null), "LazyRead", Null, Null)
     EXCEPT !.mem = [@ EXCEPT ![lhs] = [@ EXCEPT !.arg2 = h.next_alloc]]]

LazyType_e(h, lhs) == [h EXCEPT !.mem = [@ EXCEPT ![h.e] = [@ EXCEPT !.type = "S2"]]]
LazyType(h, lhs) == [h EXCEPT !.mem = [@ EXCEPT ![lhs] = [@ EXCEPT !.type = "S2"]]]

LazyChecked(h, ch) ==
  IF HeapDied(h) THEN h
  ELSE LazyTail(LazyHead(LazyType(h, h.mem[h.e].arg1), h.mem[h.e].arg1, ch),
                h.mem[h.e].arg1)

\* case LazyRead, from check_rooted(6, e, prev) to the fall through
ApplyLazyRead(h, ch) == LazyChecked(check_rooted(h, 6), ch)


-----------------------------------------------------------------------------
(* The parser, over a StringStream: s is the text, h.pos the next unread    *)
(* character                                                                *)

\* the characters of the source text that are not letters or digits
Backtick == "bq"
Star     == "star"
LParen   == "lpar"
RParen   == "rpar"

\* StringStream::getch: the character at pos, which is then pos + 1
getch(s, pos) == IF pos <= Len(s) THEN s[pos] ELSE "EOF"
Advance(h, s) == IF h.pos <= Len(s) THEN [h EXCEPT !.pos = @ + 1] ELSE h

Bad(h) == [h EXCEPT !.bad = TRUE]

RECURSIVE parse_expr(_, _, _, _)
RECURSIVE parse_manual_close_loop(_, _, _)
RECURSIVE parse_digits(_, _, _, _)

\* parse_expr(f, f->getch(), i_is_iota)
ParseNext(h, s, i_is_iota) ==
  IF h.bad THEN h ELSE parse_expr(Advance(h, s), s, getch(s, h.pos), i_is_iota)

MakeApp(hq, p) == IF hq.bad THEN hq ELSE partial_apply(hq, p, hq.p)
ParseArg2(hp, s, i_is_iota) == MakeApp(ParseNext(hp, s, i_is_iota), hp.p)

AppPK(h) == partial_apply(h, h.p, cK)
AppSP(h) == partial_apply(h, cS, h.p)
DigitsNext(h, s) ==
  IF getch(s, h.pos) \in {"0", "1"}
  THEN parse_digits(Advance(h, s), s, getch(s, h.pos), h.p)
  ELSE h

\* the do-while of parse_expr's case '0': case '1':
parse_digits(h, s, ch, e) ==
  DigitsNext(IF ch = "0" THEN AppPK(partial_apply(h, e, cS))
                         ELSE AppSP(partial_apply(h, cK, e)), s)

CloseEnd(r, expected) ==
  IF r.bad \/ r.peek # expected THEN Bad(r)
  ELSE IF r.p = Null THEN Ret(r, cI) ELSE r

\* parse_manual_close(f, expected_terminator)
parse_manual_close(h, s, expected) ==
  CloseEnd(parse_manual_close_loop(h, s, Null), expected)

CloseAgain(h, s) == parse_manual_close_loop(h, s, h.p)
CloseStep(r, s, e) ==
  IF r.bad THEN r
  ELSE IF e = Null THEN CloseAgain(r, s)
  ELSE CloseAgain(partial_apply(r, e, r.p), s)

parse_manual_close_loop(h, s, e) ==
  IF getch(s, h.pos) \in {RParen, "EOF"}
  THEN [Advance(h, s) EXCEPT !.p = e, !.peek = getch(s, h.pos)]
  ELSE CloseStep(parse_expr(Advance(h, s), s, getch(s, h.pos), FALSE), s, e)

\* parse_expr(f, ch, i_is_iota): ch was read, h.pos is the character after it
parse_expr(h, s, ch, i_is_iota) ==
  CASE ch \in {Backtick, Star} -> ParseArg2(ParseNext(h, s, ch = Star), s, ch = Star)
    [] ch = LParen -> parse_manual_close(h, s, RParen)
    [] ch \in {"k", "K"} -> Ret(h, cK)
    [] ch \in {"s", "S"} -> Ret(h, cS)
    [] ch = "i" -> Ret(h, IF i_is_iota THEN Iota ELSE cI)
    [] ch = "I" -> Ret(h, cI)
    [] ch \in {"0", "1"} -> parse_digits(h, s, ch, cI)
    [] OTHER -> Bad(h)

\* compose(f, g)
compose(h, f, g) ==
  Ret(New(New(h, "S2", h.next_alloc + 1, g), "K1", f, Null), h.next_alloc)

ComposeWith(r, old) == IF r.bad THEN r ELSE compose(r, r.p, old)

\* append_program(old, stream)
append_program(h, old, s) ==
  ComposeWith(parse_manual_close([h EXCEPT !.pos = 1], s, "EOF"), old)

\* main's loop over argv: every argument is a -e program text
RECURSIVE parse_args(_, _, _, _)
ArgsNext(r, args, i) == IF r.bad THEN r ELSE parse_args(r, r.p, args, i + 1)
parse_args(h, e, args, i) ==
  IF i > Len(args) THEN Ret(h, e) ELSE ArgsNext(append_program(h, e, args[i]), args, i)

car_KI(h, list) == partial_apply(h, list, KI)
car(h, list) == partial_apply(h, list, cK)
cdr_K(h, list) == partial_apply(h, list, cK)
cdr(h, list) == partial_apply(h, list, KI)

-----------------------------------------------------------------------------
(* The state as the record the operators work on, and back                 *)

NoGc == [ran |-> FALSE]
NoSnap == [taken |-> FALSE]

H == [mem |-> mem, next_alloc |-> next_alloc, from |-> from_space_start,
      to |-> to_space_start, size |-> heap_cells, roots |-> roots,
      ccc |-> cached_church_chars, oom |-> FALSE, overlap |-> FALSE, wild |-> FALSE,
      spill |-> FALSE,
      post |-> last_gc, p |-> Null, e |-> Null, prev |-> Null, pos |-> 1,
      bad |-> FALSE, peek |-> "", work |-> <<>>, slots |-> <<>>]

toplevel_root == 1
church2int_root == 2

Store(h) ==
  /\ mem' = h.mem
  /\ next_alloc' = h.next_alloc
  /\ from_space_start' = h.from
  /\ to_space_start' = h.to
  /\ roots' = h.roots
  /\ cached_church_chars' = h.ccc
  /\ last_gc' = h.post

HeapVars == <<mem, next_alloc, from_space_start, to_space_start, roots,
              cached_church_chars, last_gc>>

\* exit(code) after msg went to stderr; a signal that kills the process
Exit(msg, code) ==
  /\ pc' = "done"
  /\ err' = msg
  /\ exit_code' = code

\* what the process did to its memory when it stopped being defined
Damage(h) ==
  IF h.wild THEN "cell written outside the active arena"
  ELSE IF h.overlap THEN "work stack written over copied cells"
  ELSE "root written past roots[MAX_ROOTS - 1]"

HeapExit(h) ==
  IF Corrupted(h) THEN Exit(Damage(h), -2) ELSE Exit("out of memory!", 4)

\* the globals are stored; the run goes on at npc unless the heap ended it
Go(h, npc) ==
  /\ Store(h)
  /\ IF HeapDied(h) THEN HeapExit(h) ELSE pc' = npc /\ UNCHANGED <<err, exit_code>>

-----------------------------------------------------------------------------
(* Startup: main() up to the I/O loop                                      *)

RECURSIVE FillChars(_, _)
FillChars(h, i) ==
  IF i > EOFCode THEN h ELSE FillChars(make_church_char(h, i), i + 1)

\* main: "Preintialize the chuch numeral table"
InitChurchChars ==
  /\ pc = "init"
  /\ Go(FillChars(H, 0), "parse")
  /\ UNCHANGED <<heap_cells, ret_to, depth, cur, prev, church, program, stdin, input,
                 output, snap>>

\* *toplevel_root = partial_apply(e, new Expr(LazyRead))
Toplevel(r) ==
  RootFromP(partial_apply(New(r, "LazyRead", Null, Null), r.p, r.next_alloc),
            toplevel_root)

Built(r) ==
  IF r.bad THEN Store(r) /\ Exit("While parsing command line", 1)
  ELSE Go(Toplevel(r), "loop")

\* main: the arguments are parsed and composed, A(e, LazyRead) becomes the
\* top-level root
BuildProgram ==
  /\ pc = "parse"
  /\ Built(parse_args(H, cI, program, 1))
  /\ UNCHANGED <<heap_cells, ret_to, depth, cur, prev, church, program, stdin, input,
                 output, snap>>

-----------------------------------------------------------------------------
(* The I/O driver: main's for loop and church2int                          *)

CarBuilt(h) == Go(h, "c2i") /\ church' = h.p
CarChecked(h) ==
  IF HeapDied(h) THEN Go(h, "c2i") /\ UNCHANGED church
  ELSE CarBuilt(car(h, h.roots[toplevel_root]))

\* main: check(1); car(*toplevel_root), the argument of church2int
DriverCar ==
  /\ pc = "loop"
  /\ CarChecked(check(H, 1))
  /\ UNCHANGED <<heap_cells, ret_to, depth, cur, prev, program, stdin, input, output, snap>>

AppZero(h) == partial_apply(h, h.p, cZero)

\* Expr* e = partial_apply(partial_apply(church, &cInc), &cZero); *church2int_root = e
Decoder(h, ch) == RootFromP(AppZero(partial_apply(h, ch, cInc)), church2int_root)

\* partial_eval(node) is entered: prev = 0, cur = node
Enter(node) ==
  /\ cur' = node
  /\ prev' = Null
  /\ depth' = 0

DecoderBuilt(h) == Go(h, "eval") /\ Enter(h.p)
DecoderChecked(h, ch) ==
  IF HeapDied(h) THEN Go(h, "eval") /\ UNCHANGED <<cur, prev, depth>>
  ELSE DecoderBuilt(Decoder(h, ch))

\* church2int: check(2); the decoder is built, rooted and handed to partial_eval
Church2IntCall ==
  /\ pc = "c2i"
  /\ DecoderChecked(check(H, 2), church)
  /\ UNCHANGED <<heap_cells, ret_to, church, program, stdin, input, output, snap>>

\* church2int: the result of partial_eval(e) read with to_number()
Result == to_number(Deref(mem, cur))

\* church2int: "result was not a number"
Church2IntNotNumber ==
  /\ pc = "ret" /\ ret_to \in {"main", "decode"}
  /\ Result = -1
  /\ Exit("Runtime error: invalid output format (result was not a number)", 3)
  /\ UNCHANGED HeapVars
  /\ UNCHANGED <<heap_cells, ret_to, depth, cur, prev, church, program, stdin, input,
                 output, snap>>

\* church2int: *church2int_root = 0; return result
Church2IntReturn ==
  /\ pc = "ret" /\ ret_to \in {"main", "decode"}
  /\ Result # -1
  /\ roots' = [roots EXCEPT ![church2int_root] = Null]
  /\ pc' = "ch"
  /\ UNCHANGED <<heap_cells, mem, from_space_start, to_space_start, next_alloc,
                 cached_church_chars, ret_to, depth, cur, prev, church,
                 program, stdin, input, output, exit_code, err, last_gc, snap>>

\* main: if (ch >= 256) return ch-256
DriverExit ==
  /\ pc = "ch" /\ ret_to = "main"
  /\ Result >= EOFCode
  /\ Exit("", Result - EOFCode)
  /\ UNCHANGED HeapVars
  /\ UNCHANGED <<heap_cells, ret_to, depth, cur, prev, church, program, stdin, input,
                 output, snap>>

\* main: putchar(ch)
DriverPutchar ==
  /\ pc = "ch" /\ ret_to = "main"
  /\ Result < EOFCode
  /\ Len(output) < MaxOutput
  /\ output' = Append(output, Result)
  /\ pc' = "cdr"
  /\ UNCHANGED HeapVars
  /\ UNCHANGED <<heap_cells, ret_to, depth, cur, prev, church, program, stdin, input,
                 exit_code, err, snap>>

CdrChecked(h) ==
  IF HeapDied(h) THEN Go(h, "loop")
  ELSE Go(RootFromP(cdr(h, h.roots[toplevel_root]), toplevel_root), "loop")

\* main: check(1); *toplevel_root = cdr(*toplevel_root)
DriverCdr ==
  /\ pc = "cdr"
  /\ CdrChecked(check(H, 1))
  /\ UNCHANGED <<heap_cells, ret_to, depth, cur, prev, church, program, stdin, input,
                 output, snap>>

-----------------------------------------------------------------------------
(* The reducer: partial_eval and partial_eval_primitive_application.  One   *)
(* action is one turn of partial_eval's for loop: the walk down the spine,  *)
(* then either the return or the rewrite of the application found.          *)

U == Unthread(Walk(mem, cur, prev))

ReducerFrame == <<heap_cells, from_space_start, to_space_start, next_alloc, roots,
                  cached_church_chars, pc, ret_to, depth, church, program, stdin, input,
                  output, exit_code, err, last_gc, snap>>

Rewritten(m, c, pv) ==
  /\ mem' = m
  /\ cur' = c
  /\ prev' = pv
  /\ UNCHANGED ReducerFrame

CaseK1_kept(u) == u.kind = "K1" /\ Rewritten(u.mem, u.lhs_arg1, u.prev)
CaseI(u)  == u.kind = "I"  /\ Rewritten(Rewrite(u.mem, u.e, "I1", u.rhs, Null), u.rhs, u.prev)
CaseK(u)  == u.kind = "K"  /\ Rewritten(Rewrite(u.mem, u.e, "K1", u.rhs, Null), u.e, u.prev)
CaseK1(u) == u.kind = "K1" /\ Rewritten(Rewrite(u.mem, u.e, "I1", u.lhs_arg1, Null), u.lhs_arg1, u.prev)
CaseS(u)  == u.kind = "S"  /\ Rewritten(Rewrite(u.mem, u.e, "S1", u.rhs, Null), u.e, u.prev)
CaseS1_swapped(u) == u.kind = "S1" /\ Rewritten(Rewrite(u.mem, u.e, "S2", u.rhs, u.lhs_arg1), u.e, u.prev)
CaseS1(u) == u.kind = "S1" /\ Rewritten(Rewrite(u.mem, u.e, "S2", u.lhs_arg1, u.rhs), u.e, u.prev)

ReduceI  == pc = "eval" /\ CaseI(U)
ReduceK  == pc = "eval" /\ CaseK(U)
ReduceK1 == pc = "eval" /\ CaseK1(U)
ReduceS  == pc = "eval" /\ CaseS(U)
ReduceS1 == pc = "eval" /\ CaseS1(U)

\* the globals with the memory, e and prev the reducer has reached
AtApplication(u) == [H EXCEPT !.mem = u.mem, !.e = u.e, !.prev = u.prev]

\* partial_eval_primitive_application returns e; prev was passed by reference
Applied(h) ==
  /\ Go(h, "eval")
  /\ cur' = h.e
  /\ prev' = h.prev

CaseS2(u) == u.kind = "S2" /\ Applied(ApplyS2(AtApplication(u)))

ReduceS2 ==
  /\ pc = "eval"
  /\ CaseS2(U)
  /\ UNCHANGED <<heap_cells, ret_to, depth, church, program, stdin, input, output, snap>>

FallThrough(h) == IF HeapDied(h) THEN h ELSE ApplyS2(h)

CaseLazyRead(u, in) ==
  /\ u.kind = "LazyRead"
  /\ Applied(FallThrough(ApplyLazyRead(AtApplication(u), getchar(in))))
  /\ input' = IF is_exhausted(gc(AtApplication(u)), 6) /\ is_exhausted(AtApplication(u), 6)
              THEN in
              ELSE IF Len(in) = 0 THEN in ELSE Tail(in)

ReduceLazyRead ==
  /\ pc = "eval"
  /\ CaseLazyRead(U, input)
  /\ UNCHANGED <<heap_cells, ret_to, depth, church, program, stdin, output, snap>>

\* case Inc, up to the recursive call: root(e); root(prev); partial_eval(rhs)
CaseInc(u) ==
  /\ u.kind = "Inc"
  /\ mem' = u.mem
  /\ roots' = Append(Append(roots, u.e), u.prev)
  /\ IF Len(roots) + 2 > MAX_ROOTS
     THEN Exit("root written past roots[MAX_ROOTS - 1]", -2) /\ UNCHANGED <<cur, prev, depth>>
     ELSE /\ cur' = u.rhs
          /\ prev' = Null
          /\ depth' = depth + 1
          /\ UNCHANGED <<pc, err, exit_code>>

CallInc ==
  /\ pc = "eval"
  /\ CaseInc(U)
  /\ UNCHANGED <<heap_cells, from_space_start, to_space_start, next_alloc,
                 cached_church_chars, ret_to, church, program, stdin, input, output,
                 last_gc, snap>>

\* case Inc, after partial_eval(rhs): prev = unroot(); e = unroot()
IncE == roots[Len(roots) - 1]
IncPrev == roots[Len(roots)]

IncDone_same(u, n) ==
  /\ u.kind = "return"
  /\ n # -1 /\ n # IntMax
  /\ mem' = Rewrite(u.mem, IncE, "Num", n, Null)
  /\ roots' = SubSeq(roots, 1, Len(roots) - 2)
  /\ cur' = IncE
  /\ prev' = IncPrev
  /\ depth' = depth - 1

\* e->type = Num; e->numeric_arg1 = rhs_res->to_number() + 1; e->arg2 = 0
IncDone(u, n) ==
  /\ u.kind = "return"
  /\ n # -1 /\ n # IntMax
  /\ mem' = Rewrite(u.mem, IncE, "Num", n + 1, Null)
  /\ roots' = SubSeq(roots, 1, Len(roots) - 2)
  /\ cur' = IncE
  /\ prev' = IncPrev
  /\ depth' = depth - 1

IncReturn ==
  /\ pc = "eval" /\ depth > 0
  /\ IncDone(U, to_number(Deref(U.mem, U.cur)))
  /\ UNCHANGED <<heap_cells, from_space_start, to_space_start, next_alloc,
                 cached_church_chars, pc, ret_to, church, program, stdin, input, output,
                 exit_code, err, last_gc, snap>>

\* case Inc: to_number() gave -1, the sum is 0
IncFailed(u, n) ==
  /\ u.kind = "return"
  /\ n = -1
  /\ mem' = [u.mem EXCEPT ![IncE] = [@ EXCEPT !.type = "Num", !.arg1 = 0]]
  /\ roots' = SubSeq(roots, 1, Len(roots) - 2)
  /\ cur' = IncE
  /\ prev' = IncPrev
  /\ Exit("Runtime error: invalid output format (attempted to apply inc to a non-number)", 3)

IncNotNumber ==
  /\ pc = "eval" /\ depth > 0
  /\ IncFailed(U, to_number(Deref(U.mem, U.cur)))
  /\ UNCHANGED <<heap_cells, from_space_start, to_space_start, next_alloc,
                 cached_church_chars, ret_to, depth, church, program, stdin, input, output,
                 last_gc, snap>>

CaseNum_abort(u) ==
  /\ u.kind = "Num"
  /\ mem' = u.mem
  /\ Exit("INTERNAL ERROR: invalid type in partial_eval_primitive_application", 134)

\* case Num
CaseNum(u) ==
  /\ u.kind = "Num"
  /\ mem' = u.mem
  /\ Exit("Runtime error: invalid output format (attempted to apply a number)", 3)

ApplyNum ==
  /\ pc = "eval"
  /\ CaseNum(U)
  /\ UNCHANGED <<heap_cells, from_space_start, to_space_start, next_alloc, roots,
                 cached_church_chars, ret_to, depth, cur, prev, church, program, stdin,
                 input, output, last_gc, snap>>

\* the switch's default: the type field holds no case of the switch (abort());
\* or the walk left the mapped memory, or never ends
Faulted(u) ==
  /\ u.kind \in {"Junk", "A", "I1", "segv", "hang"}
  /\ mem' = u.mem
  /\ IF u.kind = "segv" THEN Exit("segmentation fault", 139)
     ELSE IF u.kind = "hang" THEN Exit("no return", -1)
     ELSE Exit("INTERNAL ERROR: invalid type in partial_eval_primitive_application", 134)

ApplyInvalid ==
  /\ pc = "eval"
  /\ Faulted(U)
  /\ UNCHANGED <<heap_cells, from_space_start, to_space_start, next_alloc, roots,
                 cached_church_chars, ret_to, depth, cur, prev, church, program,
                 stdin, input, output, last_gc, snap>>

Returned(u) ==
  /\ u.kind = "return"
  /\ mem' = u.mem
  /\ cur' = u.cur
  /\ pc' = "ret"

\* partial_eval returns cur to the caller of the outermost call
PartialEvalReturn ==
  /\ pc = "eval" /\ depth = 0
  /\ Returned(U)
  /\ UNCHANGED <<heap_cells, from_space_start, to_space_start, next_alloc, roots,
                 cached_church_chars, ret_to, depth, prev, church, program, stdin, input,
                 output, exit_code, err, last_gc, snap>>

-----------------------------------------------------------------------------
(* The whole program                                                        *)

RECURSIVE SeqsOver(_, _)
Longer(shorter, S, n) ==
  shorter \cup {Append(q, x) : q \in {t \in shorter : Len(t) = n - 1}, x \in S}
SeqsOver(S, n) == IF n = 0 THEN {<<>>} ELSE Longer(SeqsOver(S, n - 1), S, n)

\* the bytes fed on standard input
InputBytes == {0, EOFCode - 1}
Inputs == SeqsOver(InputBytes, MaxInput)

\* argv: no argument at all is the identity program
Identity == <<>>
\* -e '`k`kI': K (K I)
ProgKKI == << <<Backtick, "k", Backtick, "k", "I">> >>
\* -e '`k`k`k``sii': every head of the output list is K (S I I)
ProgApplyNum ==
  << <<Backtick, "k", Backtick, "k", Backtick, "k", Backtick, Backtick, "s", "i", "i">> >>
\* -e '`k`k``si`kk': every head of the output list is S I (K K)
ProgIncK ==
  << <<Backtick, "k", Backtick, "k", Backtick, Backtick, "s", "i", Backtick, "k", "k">> >>
\* -e '*i*i*ii': Iota (Iota (Iota Iota))
ProgIota == << <<Star, "i", Star, "i", Star, "i", "i">> >>
\* -e '000000': a text whose twelve application cells, with the cache, compose
\* and the top-level application, need more cells than the smallest arenas have
ProgDigits == << <<"0", "0", "0", "0", "0", "0">> >>
\* -e '``sk``sk``sk``sk``skI': S K x is the identity; the text is a chain of
\* applications nested to the right, each with an application to its left
ProgChain ==
  << <<Backtick, Backtick, "s", "k", Backtick, Backtick, "s", "k",
       Backtick, Backtick, "s", "k", Backtick, Backtick, "s", "k",
       Backtick, Backtick, "s", "k", "I">> >>
Programs == {Identity, ProgKKI, ProgApplyNum, ProgIncK, ProgDigits, ProgChain}

Runs ==
  {<<Identity, i>> : i \in Inputs}
  \cup {<<p, <<>>>> : p \in Programs}
  \cup {<<ProgIota, <<b>>>> : b \in InputBytes}

InitMachine(heaps) ==
  /\ heap_cells \in heaps
  /\ mem = [a \in Arena(heap_cells) |-> ZeroCell]
  /\ from_space_start = space1
  /\ to_space_start = space2(heap_cells)
  /\ next_alloc = space1
  /\ roots = <<Null, Null>>
  /\ cached_church_chars =
       [i \in 0 .. EOFCode |-> IF i = 0 THEN KI ELSE IF i = 1 THEN cI ELSE Null]
  /\ depth = 0
  /\ cur = Null /\ prev = Null /\ church = Null
  /\ output = <<>>
  /\ exit_code = -1
  /\ err = ""
  /\ last_gc = NoGc

Init ==
  /\ InitMachine(MinHeap .. MaxHeap)
  /\ pc = "init"
  /\ ret_to = "main"
  /\ snap = NoSnap
  /\ \E r \in Runs : program = r[1] /\ stdin = r[2]
  /\ input = stdin

Next ==
  \/ InitChurchChars
  \/ BuildProgram
  \/ DriverCar
  \/ Church2IntCall
  \/ ReduceI
  \/ ReduceK
  \/ ReduceK1
  \/ ReduceS
  \/ ReduceS1
  \/ ReduceS2
  \/ ReduceLazyRead
  \/ CallInc
  \/ IncReturn
  \/ IncNotNumber
  \/ ApplyNum
  \/ ApplyInvalid
  \/ PartialEvalReturn
  \/ Church2IntNotNumber
  \/ Church2IntReturn
  \/ DriverExit
  \/ DriverPutchar
  \/ DriverCdr

Spec == Init /\ [][Next]_vars

-----------------------------------------------------------------------------
(* partial_eval called on its own: a caller builds a graph with new Expr,   *)
(* roots it, calls partial_eval(node), and calls it again on what it got    *)

\* a graph as its prefix form: "A" x y, "I1" x, or a leaf
Leaves == {"S", "K", "I", "KI", "SI", "SKSK"}

LeafCell(tok) ==
  CASE tok = "S" -> cS [] tok = "K" -> cK [] tok = "I" -> cI
    [] tok = "KI" -> KI [] tok = "SI" -> SI [] tok = "SKSK" -> SKSK
    [] tok = "Inc" -> cInc [] tok = "n0" -> cZero

NumLeaf(tok) ==
  CASE tok = "n1" -> 1 [] tok = "nMax1" -> IntMax - 1 [] tok = "nMax" -> IntMax

RECURSIVE BuildTerm(_, _)
Skip(h) == [h EXCEPT !.pos = @ + 1]
BuildI1(r) == New(r, "I1", r.p, Null)
BuildPair(r, lhs) == New(r, "A", lhs, r.p)
BuildArg(r, t) == BuildPair(BuildTerm(r, t), r.p)

\* new Expr(...) for every cell of the graph t, children first
BuildTerm(h, t) ==
  CASE t[h.pos] = "A" -> BuildArg(BuildTerm(Skip(h), t), t)
    [] t[h.pos] = "I1" -> BuildI1(BuildTerm(Skip(h), t))
    [] t[h.pos] = "LazyRead" -> New(Skip(h), "LazyRead", Null, Null)
    [] t[h.pos] \in {"n1", "nMax1", "nMax"} -> New(Skip(h), "Num", NumLeaf(t[h.pos]), Null)
    [] OTHER -> Ret(Skip(h), LeafCell(t[h.pos]))

EvalBuilt(h) == Go(h, "eval") /\ Enter(h.p)

\* the cache is filled, the graph built and rooted, partial_eval(node) entered
EvalStart ==
  /\ pc = "build" /\ ret_to = "eval"
  /\ EvalBuilt(RootFromP(BuildTerm(FillChars(H, 0), program[1]), church2int_root))
  /\ UNCHANGED <<heap_cells, ret_to, church, program, stdin, input, output, snap>>

\* partial_eval returned r; the caller calls partial_eval(r)
EvalAgain ==
  /\ pc = "ret" /\ ret_to = "eval"
  /\ ~snap.taken
  /\ snap' = [taken |-> TRUE, res |-> cur, mem |-> mem, next_alloc |-> next_alloc,
              input |-> input]
  /\ Enter(cur)
  /\ pc' = "eval"
  /\ UNCHANGED HeapVars
  /\ UNCHANGED <<heap_cells, ret_to, church, program, stdin, input, output,
                 exit_code, err>>

EvalDone ==
  /\ pc = "ret" /\ ret_to = "eval"
  /\ snap.taken
  /\ Exit("", 0)
  /\ UNCHANGED HeapVars
  /\ UNCHANGED <<heap_cells, ret_to, depth, cur, prev, church, program, stdin, input,
                 output, snap>>

RECURSIVE TermsOf(_)
TermsOf(n) ==
  IF n = 1 THEN {<<a>> : a \in Leaves}
  ELSE {<<"I1">> \o t : t \in TermsOf(n - 1)}
       \cup UNION {{<<"A">> \o t1 \o t2 : t1 \in TermsOf(k), t2 \in TermsOf(n - k)} :
                   k \in 1 .. (n - 1)}

Terms(max) == UNION {TermsOf(n) : n \in 1 .. max}

\* graphs that read standard input
ReadTerms == {<<"A", "LazyRead", "K">>, <<"A", "A", "LazyRead", "K", "I">>,
              <<"A", "I", "A", "LazyRead", "KI">>}

InitEval ==
  /\ InitMachine({EvalHeapMin, EvalHeapMax})
  /\ pc = "build"
  /\ ret_to = "eval"
  /\ snap = NoSnap
  /\ \/ \E t \in Terms(MaxLeaves) : program = <<t>> /\ stdin = <<>>
     \/ \E t \in ReadTerms, i \in Inputs : program = <<t>> /\ stdin = i
  /\ input = stdin

NextEval ==
  \/ EvalStart
  \/ ReduceI
  \/ ReduceK
  \/ ReduceK1
  \/ ReduceS
  \/ ReduceS1
  \/ ReduceS2
  \/ ReduceLazyRead
  \/ PartialEvalReturn
  \/ EvalAgain
  \/ EvalDone

SpecEval == InitEval /\ [][NextEval]_vars

-----------------------------------------------------------------------------
(* The Inc case called on its own                                           *)

\* e->numeric_arg1 = rhs_res->to_number() + 1 with to_number() = INT_MAX: the
\* signed sum overflows, it wraps to INT_MIN or the addition traps
IncOverflowed(u, n, outcome) ==
  /\ u.kind = "return"
  /\ n = IntMax
  /\ roots' = SubSeq(roots, 1, Len(roots) - 2)
  /\ cur' = IncE
  /\ prev' = IncPrev
  /\ IF outcome = "wrap"
     THEN /\ mem' = Rewrite(u.mem, IncE, "Num", -IntMax - 1, Null)
          /\ depth' = depth - 1
          /\ UNCHANGED <<pc, err, exit_code>>
     ELSE /\ mem' = [u.mem EXCEPT ![IncE] = [@ EXCEPT !.type = "Num"]]
          /\ UNCHANGED depth
          /\ Exit("signed overflow trapped", 134)

IncOverflow ==
  /\ pc = "eval" /\ depth > 0
  /\ \E outcome \in {"wrap", "trap"} :
       IncOverflowed(U, to_number(Deref(U.mem, U.cur)), outcome)
  /\ UNCHANGED <<heap_cells, from_space_start, to_space_start, next_alloc,
                 cached_church_chars, ret_to, church, program, stdin, input, output,
                 last_gc, snap>>

NumLeaves == {<<"n0">>, <<"n1">>, <<"nMax1">>, <<"nMax">>}
IncArgs ==
  NumLeaves
  \cup {<<"A", "I">> \o n : n \in NumLeaves}
  \cup {<<"A", "A", "K">> \o n \o <<"S">> : n \in NumLeaves}
  \cup {<<"A", "Inc">> \o n : n \in NumLeaves}
  \cup {<<"K">>, <<"S">>, <<"I">>, <<"KI">>, <<"Inc">>, <<"A", "K", "I">>, <<"A", "S", "K">>,
        <<"A", "SI", "K">>}
IncTerms == {<<"A", "Inc">> \o x : x \in IncArgs}

InitInc ==
  /\ InitMachine(EvalHeapMin .. EvalHeapMax)
  /\ pc = "build"
  /\ ret_to = "eval"
  /\ snap = NoSnap
  /\ \E t \in IncTerms : program = <<t>>
  /\ stdin = <<>>
  /\ input = stdin

NextInc ==
  \/ EvalStart
  \/ ReduceI
  \/ ReduceK
  \/ ReduceK1
  \/ ReduceS
  \/ ReduceS1
  \/ CallInc
  \/ IncReturn
  \/ IncNotNumber
  \/ IncOverflow
  \/ PartialEvalReturn
  \/ EvalAgain
  \/ EvalDone

SpecInc == InitInc /\ [][NextInc]_vars

-----------------------------------------------------------------------------
(* A program's first output value decoded: the decoder A(A(n, Inc), Zero)   *)
(* of a Church numeral n the program built is rooted and reduced            *)

\* the numeral n as a program builds it: n + 1 = S (S (K S) K) n, 1 = I
RECURSIVE ChurchTerm(_)
ChurchTerm(n) ==
  IF n = 1 THEN <<"I">> ELSE <<"A", "A", "S", "SKSK">> \o ChurchTerm(n - 1)

EmitTerms == {<<"A", "A">> \o ChurchTerm(n) \o <<"Inc", "n0">> : n \in 1 .. MaxEmit}

InitEmit ==
  /\ InitMachine(EvalHeapMax .. MaxHeap)
  /\ pc = "build"
  /\ ret_to = "eval"
  /\ snap = NoSnap
  /\ \E t \in EmitTerms : program = <<t>>
  /\ stdin = <<>>
  /\ input = stdin

NextEmit ==
  \/ EvalStart
  \/ ReduceI
  \/ ReduceK
  \/ ReduceK1
  \/ ReduceS
  \/ ReduceS1
  \/ ReduceS2
  \/ CallInc
  \/ IncReturn
  \/ PartialEvalReturn
  \/ EvalAgain
  \/ EvalDone

SpecEmit == InitEmit /\ [][NextEmit]_vars

-----------------------------------------------------------------------------
(* church2int called on its own, on an entry of the cache                   *)

\* church2int(cached_church_chars[n]) is called once the cache is filled
DecodeFilled(h, n) == Go(h, "c2i") /\ church' = h.ccc[n]

DecodeStart ==
  /\ pc = "build" /\ ret_to = "decode"
  /\ DecodeFilled(FillChars(H, 0), snap.n)
  /\ UNCHANGED <<heap_cells, ret_to, depth, cur, prev, program, stdin, input, output,
                 snap>>

DecodeDone ==
  /\ pc = "ch" /\ ret_to = "decode"
  /\ Exit("", 0)
  /\ UNCHANGED HeapVars
  /\ UNCHANGED <<heap_cells, ret_to, depth, cur, prev, church, program, stdin, input,
                 output, snap>>

InitDecode ==
  /\ InitMachine(EvalHeapMin .. MaxHeap)
  /\ pc = "build"
  /\ ret_to = "decode"
  /\ \E n \in 0 .. EOFCode : snap = [taken |-> FALSE, n |-> n]
  /\ program = <<>>
  /\ stdin = <<>>
  /\ input = stdin

NextDecode ==
  \/ DecodeStart
  \/ Church2IntCall
  \/ ReduceI
  \/ ReduceK
  \/ ReduceK1
  \/ ReduceS
  \/ ReduceS1
  \/ ReduceS2
  \/ CallInc
  \/ IncReturn
  \/ PartialEvalReturn
  \/ Church2IntReturn
  \/ DecodeDone

SpecDecode == InitDecode /\ [][NextDecode]_vars

-----------------------------------------------------------------------------
(* The claims about the whole program                                       *)

NotNumberMsg == "Runtime error: invalid output format (result was not a number)"
IncMsg == "Runtime error: invalid output format (attempted to apply inc to a non-number)"
ApplyNumMsg == "Runtime error: invalid output format (attempted to apply a number)"

\* C1: the identity program writes exactly the bytes of its input, in order, and
\* exits with code 0, whatever the heap size (a run that ends with "out of
\* memory!" aside)
C1_IdentityRoundTrip ==
  (pc = "done" /\ program = Identity /\ exit_code # 4)
     => (output = stdin /\ exit_code = 0)

\* the top-level root is A(top, KI), top being the root before the step, or
\* its copy if the step collected
TailTaken ==
  /\ roots'[toplevel_root] \in DOMAIN mem'
  /\ mem'[roots'[toplevel_root]].type = "A"
  /\ mem'[roots'[toplevel_root]].arg2 = KI
  /\ mem'[roots'[toplevel_root]].arg1 =
       IF last_gc' = last_gc THEN roots[toplevel_root] ELSE last_gc'.roots[toplevel_root]

DriverStep ==
  /\ (pc = "ch" /\ Result < EOFCode) => (output' = Append(output, Result) /\ pc' = "cdr")
  /\ (pc = "ch" /\ Result >= EOFCode)
        => (output' = output /\ pc' = "done" /\ exit_code' = Result - EOFCode)
  /\ output' # output => pc = "ch"
  /\ (pc = "cdr" /\ pc' = "loop") => TailTaken
  /\ pc' = "loop" => pc \in {"parse", "cdr"}
  /\ pc' = "c2i" => pc = "loop"

\* C2: the driver writes one byte per head that decodes below 256, in list order;
\* at the first head that decodes to v >= 256 it writes nothing more and exits
\* with v - 256; after each byte the top-level root becomes A(top, KI) before the
\* next head is decoded
C2_DriverLoop == [][DriverStep]_vars

C2_Witness ==
  /\ pc = "done" /\ exit_code = 0
  /\ program = Identity
  /\ Len(output) = 2
  /\ last_gc.ran

InActive(p) == p >= from_space_start /\ p < from_space_start + heap_cells
PointerOk(p) == p = Null \/ p \in Statics \/ InActive(p)

Children(p) ==
  IF p \in DOMAIN mem /\ mem[p].type # "Num" THEN {mem[p].arg1, mem[p].arg2} \ {Null}
  ELSE {}

RECURSIVE Reach(_)
Grown(S) == S \cup UNION {Children(p) : p \in S}
Reach(S) == IF Grown(S) = S THEN S ELSE Reach(Grown(S))

\* what the root table and the cache hold, and what the driver and the reducer
\* hold in the locals they still use: the car cell until the decoder is built
Held ==
  {roots[i] : i \in 1 .. Len(roots)}
  \cup {cached_church_chars[i] : i \in DOMAIN cached_church_chars}
  \cup (IF pc = "c2i" THEN {church} ELSE {})
  \cup (IF pc = "eval" THEN {cur, prev} ELSE {})

\* C3: outside a collection, every pointer held by the root table, the cache,
\* the driver or the reducer, and every child pointer of a cell reachable from
\* them, is null, a static atom or a cell of the active arena
C3_PointersInActiveArena ==
  pc # "done" => \A p \in Reach(Held) : PointerOk(p)

GcPointerOk(g, p) == p = Null \/ p \in Statics \/ (p >= g.from /\ p < g.from + g.size)

GcClean(g) ==
  /\ \A i \in 1 .. Len(g.roots) : GcPointerOk(g, g.roots[i])
  /\ \A i \in DOMAIN g.ccc : GcPointerOk(g, g.ccc[i])
  /\ \A a \in g.from .. (g.next_alloc - 1) :
       g.mem[a].type # "Num" => GcPointerOk(g, g.mem[a].arg1) /\ GcPointerOk(g, g.mem[a].arg2)

\* C4: right after gc() every root slot and every cache entry is null, static or
\* in the newly active arena, and so are arg1 and arg2 of every non-Num cell of
\* the newly active arena below next_alloc
C4_GcLeavesNoOldPointer == last_gc.ran => GcClean(last_gc)

C4_Witness ==
  /\ last_gc.ran
  /\ pc = "eval"
  /\ last_gc.roots[toplevel_root] >= last_gc.from
  /\ \E a \in last_gc.from .. (last_gc.next_alloc - 1) :
       last_gc.mem[a].type = "A" /\ last_gc.mem[a].arg1 >= last_gc.from

FormatErrorStep ==
  /\ (pc = "ret" /\ ret_to = "main" /\ Result = -1)
        => (pc' = "done" /\ exit_code' = 3 /\ err' = NotNumberMsg /\ output' = output)
  /\ (pc = "eval" /\ depth > 0 /\ U.kind = "return" /\ to_number(Deref(U.mem, U.cur)) = -1)
        => (pc' = "done" /\ exit_code' = 3 /\ err' = IncMsg /\ output' = output)
  /\ (pc = "eval" /\ U.kind = "Num")
        => (pc' = "done" /\ exit_code' = 3 /\ err' = ApplyNumMsg /\ output' = output)
  /\ pc = "done" => output' = output

\* C8: each format error ends the process with exit code 3 and no further output
\* byte: the decoder reduced to a cell that is not Num, Inc applied to what does
\* not reduce to Num, an application whose function part is Num
C8_FormatErrorsExit3 == [][FormatErrorStep]_vars

C8_Witness ==
  /\ pc = "done" /\ exit_code = 3
  /\ err = ApplyNumMsg
  /\ program = ProgApplyNum

\* C10 as stated: K (K I) on empty input writes no byte and exits with code 0
C10_AsStated ==
  (pc = "done" /\ program = ProgKKI /\ exit_code # 4) => (output = <<>> /\ exit_code = 0)

\* C10: K (K I) on empty input writes the byte 1 (its first head is I, the
\* numeral 1), then its second head K decodes to no number and the process
\* exits with code 3
C10_KKI ==
  program = ProgKKI =>
     /\ output \in {<<>>, <<1>>}
     /\ (pc = "done" /\ exit_code # 4) =>
           (output = <<1>> /\ exit_code = 3 /\ err = NotNumberMsg)

C10_Witness ==
  /\ program = ProgKKI /\ stdin = <<>>
  /\ pc = "done" /\ exit_code = 3
  /\ output = <<1>>

\* C11 as stated: the program *i*i*ii run on one input byte b writes exactly b
\* and exits with code 0
C11_AsStated ==
  (pc = "done" /\ program = ProgIota /\ exit_code # 4)
     => (output = stdin /\ exit_code = 0)

\* C11: the program *i*i*ii, Iota (Iota (Iota Iota)), denotes K: the output
\* list is K1(LazyRead), its first head is the input list itself, which Inc
\* cannot count, so on one input byte the run writes nothing and exits with
\* code 3, "attempted to apply inc to a non-number"
C11_IotaChainIsK ==
  program = ProgIota =>
     /\ output = <<>>
     /\ (pc = "done" /\ exit_code # 4) => (exit_code = 3 /\ err = IncMsg)

C11_Witness ==
  /\ pc = "done" /\ program = ProgIota
  /\ exit_code = 3 /\ err = IncMsg
  /\ stdin = <<EOFCode - 1>> /\ input = <<>>
  /\ last_gc.ran

\* C12: outside a collection next_alloc is strictly below the end of the
\* active arena, and no new Expr writes a cell outside the active arena
C12_AllocationsInsideArena ==
  /\ pc # "done" => next_alloc < from_space_start + heap_cells
  /\ err # "cell written outside the active arena"

\* C13: during a collection the work stack, growing down from the end of
\* to-space, never meets the cells copied up from its start: no push_work
\* writes its entry over a copied cell
\* (for a collection that began with next_alloc below the end of the arena,
\* as is_exhausted keeps it: what is live then fits in the arena)
C13_WorkStackClearOfCopies ==
  (last_gc.ran /\ last_gc.was.next_alloc < last_gc.was.from + heap_cells)
     => err # "work stack written over copied cells"

WasInArena(g, p) == p >= g.was.from /\ p < g.was.from + g.size

\* where gc() sent a pointer: the forward field of the from-space cell
Forwarded(g, p) == IF WasInArena(g, p) THEN g.mem[p].forward ELSE p

WasChildren(g, p) ==
  IF WasInArena(g, p) /\ g.was.mem[p].type # "Num"
  THEN {g.was.mem[p].arg1, g.was.mem[p].arg2} ELSE {}

RECURSIVE WasReach(_, _)
WasGrown(g, S) == S \cup UNION {WasChildren(g, p) : p \in S}
WasReach(g, S) == IF WasGrown(g, S) = S THEN S ELSE WasReach(g, WasGrown(g, S))

\* the from-space cells that were reachable from the root table or the cache
WasLive(g) ==
  {p \in WasReach(g, {g.was.roots[i] : i \in 1 .. Len(g.was.roots)}
                       \cup {g.was.ccc[i] : i \in DOMAIN g.was.ccc}) : WasInArena(g, p)}

CopyOf(g, a) ==
  /\ g.mem[a].forward >= g.from /\ g.mem[a].forward < g.next_alloc
  /\ g.mem[g.mem[a].forward].type = g.was.mem[a].type
  /\ IF g.was.mem[a].type = "Num"
     THEN g.mem[g.mem[a].forward].arg1 = g.was.mem[a].arg1
     ELSE /\ g.mem[g.mem[a].forward].arg1 = Forwarded(g, g.was.mem[a].arg1)
          /\ g.mem[g.mem[a].forward].arg2 = Forwarded(g, g.was.mem[a].arg2)

Relocated(g) ==
  /\ \A i \in 1 .. Len(g.roots) : g.roots[i] = Forwarded(g, g.was.roots[i])
  /\ \A i \in DOMAIN g.ccc : g.ccc[i] = Forwarded(g, g.was.ccc[i])
  /\ \A a \in WasLive(g) : CopyOf(g, a)
  /\ \A a, b \in WasLive(g) : g.mem[a].forward = g.mem[b].forward => a = b
  /\ Cardinality(WasLive(g)) = g.next_alloc - g.from

\* C15: gc() copies every from-space cell reachable from the root table or the
\* cache exactly once and nothing else; roots, cache entries and children are
\* replaced by the copy of what they pointed to (one copy per cell, so shared
\* cells stay shared); a copy has the tag and the Num payload of its original;
\* static and null pointers are left as they were
C15_GcPreservesLiveGraph == last_gc.ran => Relocated(last_gc)

\* a pointer of the step's first state as the step's collection, if it had
\* one, relocated it
Moved(p) == IF last_gc' = last_gc THEN p ELSE Forwarded(last_gc', p)

\* next_alloc when the step began to allocate
AllocBase == IF last_gc' = last_gc THEN next_alloc ELSE last_gc'.next_alloc

LazyByte == IF input = <<>> THEN EOFCode ELSE Head(input)

\* the head built for the byte: a cell of the given tag over I and K1(ccc[b])
LazyHeadIs(hd, tag) ==
  /\ hd >= AllocBase /\ hd < next_alloc'
  /\ mem'[hd].type = tag /\ mem'[hd].arg1 = cI
  /\ mem'[hd].arg2 >= AllocBase /\ mem'[hd].arg2 < next_alloc'
  /\ mem'[mem'[hd].arg2] = Expr("K1", cached_church_chars'[LazyByte], Null)

\* the tail: K1 over a LazyRead cell the step allocated
LazyTailIs(tl) ==
  /\ tl >= AllocBase /\ tl < next_alloc'
  /\ mem'[tl].type = "K1" /\ mem'[tl].arg2 = Null
  /\ mem'[tl].arg1 >= AllocBase /\ mem'[tl].arg1 < next_alloc'
  /\ mem'[mem'[tl].arg1] = Expr("LazyRead", Null, Null)

\* e rewritten by the S2 rule over the cell L as the step left it
LazyS2Applied(e, L, rhs) ==
  /\ cur' = e
  /\ mem'[e].type = "A"
  /\ mem'[e].arg1 >= AllocBase /\ mem'[e].arg1 < next_alloc'
  /\ mem'[e].arg2 >= AllocBase /\ mem'[e].arg2 < next_alloc'
  /\ mem'[mem'[e].arg1] = Expr("A", mem'[L].arg1, rhs)
  /\ mem'[mem'[e].arg2] = Expr("A", mem'[L].arg2, rhs)

\* a reduction of A(L, rhs), L a LazyRead cell, both in the active arena, that
\* does not end with "out of memory!"
LazyReduced ==
  /\ pc = "eval" /\ pc' = "eval"
  /\ U.kind = "LazyRead"
  /\ InActive(U.e) /\ InActive(U.lhs)

LazyStep(tag) ==
  LazyReduced =>
     /\ mem'[Moved(U.lhs)].type = "S2"
     /\ LazyHeadIs(mem'[Moved(U.lhs)].arg1, tag)
     /\ LazyTailIs(mem'[Moved(U.lhs)].arg2)
     /\ LazyS2Applied(Moved(U.e), Moved(U.lhs), Moved(U.rhs))
     /\ next_alloc' = AllocBase + 6
     /\ input' = IF input = <<>> THEN input ELSE Tail(input)

RootsBalanced ==
  /\ pc = "eval" => Len(roots) = 2 + 2 * depth
  /\ pc \notin {"eval", "done"} => Len(roots) = 2

\* a reduction that does not end the run
Reduced(kinds) == pc = "eval" /\ pc' = "eval" /\ U.kind \in kinds

RootedStep ==
  /\ RootsBalanced /\ RootsBalanced'
  \* check_rooted(n, e, prev) of the S2 and LazyRead cases
  /\ Reduced({"S2", "LazyRead"})
       => /\ roots' = [i \in 1 .. Len(roots) |-> Moved(roots[i])]
          /\ cur' = Moved(U.e)
          /\ prev' = Moved(U.prev)
  \* the Inc case: root(e); root(prev)
  /\ Reduced({"Inc"}) => roots' = roots \o <<U.e, U.prev>>
  \* the Inc case: prev = unroot(); e = unroot()
  /\ (Reduced({"return"}) /\ depth > 0)
       => /\ roots' = SubSeq(roots, 1, Len(roots) - 2)
          /\ cur' = roots[Len(roots) - 1]
          /\ prev' = roots[Len(roots)]
          /\ Deref(U.mem, U.mem[cur'].arg1).type = "Inc"
          /\ mem'[cur'].type = "Num"

\* C19: the root stack is balanced and pops in the order it pushed:
\* root_stack_top is 2 between reductions and is back at its entry value when
\* check_rooted and partial_eval return; after check_rooted popped its two
\* slots e and prev are the cells they were, or their copies if gc() ran, and
\* after the Inc case popped its two slots e is the Inc application it
\* pushed first and prev the cell it pushed second
C19_RootStackBalanced == [][RootedStep]_vars

C19_Witness ==
  /\ pc = "eval" /\ depth > 0
  /\ last_gc.ran /\ last_gc.next_alloc + 2 = next_alloc
  /\ Len(last_gc.was.roots) = 2 + 2 * depth + 2
  /\ prev # Null /\ cur # prev
  /\ InActive(cur) /\ InActive(prev)

\* a LazyRead cell that was forced: S2(S2(I, K1(numeral)), K1(tail))
ForcedRead(c) ==
  /\ c \in DOMAIN mem /\ mem[c].type = "S2"
  /\ mem[c].arg1 \in DOMAIN mem /\ mem[mem[c].arg1].type = "S2"
  /\ mem[mem[c].arg1].arg1 = cI
  /\ mem[mem[c].arg1].arg2 \in DOMAIN mem /\ mem[mem[mem[c].arg1].arg2].type = "K1"
  /\ mem[c].arg2 \in DOMAIN mem /\ mem[mem[c].arg2].type = "K1"

\* the byte its head holds: the index of the numeral in the cache
ReadByte(c) ==
  CHOOSE b \in 0 .. EOFCode + 1 :
    \/ (b <= EOFCode /\ cached_church_chars[b] = mem[mem[mem[c].arg1].arg2].arg1)
    \/ (b = EOFCode + 1 /\ \A i \in 0 .. EOFCode :
          cached_church_chars[i] # mem[mem[mem[c].arg1].arg2].arg1)

ReadTail(c) == mem[mem[c].arg2].arg1

\* the bytes held by the forced cells from c on, along the tails
RECURSIVE ChainBytes(_, _)
ChainBytes(c, fuel) ==
  IF fuel = 0 \/ ~ForcedRead(c) THEN <<>>
  ELSE <<ReadByte(c)>> \o ChainBytes(ReadTail(c), fuel - 1)

RECURSIVE ChainEnd(_, _)
ChainEnd(c, fuel) ==
  IF fuel = 0 \/ ~ForcedRead(c) THEN c ELSE ChainEnd(ReadTail(c), fuel - 1)

\* the bytes read from standard input so far
Consumed == SubSeq(stdin, 1, Len(stdin) - Len(input))

RECURSIVE Strip(_)
Strip(q) ==
  IF Len(q) > 0 /\ q[Len(q)] = EOFCode THEN Strip(SubSeq(q, 1, Len(q) - 1)) ELSE q

IsSuffix(q, r) == Len(q) <= Len(r) /\ q = SubSeq(r, Len(r) - Len(q) + 1, Len(r))

\* the chain from a forced cell holds the last bytes read, in order, then (at
\* end of input only) end-of-stream codes, and ends at a LazyRead cell
WellRead(c) ==
  /\ IsSuffix(Strip(ChainBytes(c, Fuel)), Consumed)
  /\ Strip(ChainBytes(c, Fuel)) # ChainBytes(c, Fuel) => input = <<>>
  /\ ChainEnd(c, Fuel) \in DOMAIN mem
  /\ mem[ChainEnd(c, Fuel)].type = "LazyRead"
  /\ InActive(ChainEnd(c, Fuel))

\* C17: a LazyRead cell consumes at most one byte: along the tails, the forced
\* cells hold the bytes of standard input in the order they were read, the
\* k-th cell the k-th byte, after the last byte the end-of-stream code, and
\* there is one LazyRead cell, at the end of the chain, whatever pointer the
\* chain is reached through
C17_OneBytePerLazyRead ==
  pc # "done" =>
     /\ \A c \in from_space_start .. (next_alloc - 1) : ForcedRead(c) => WellRead(c)
     /\ Cardinality({p \in Reach(Held) : p \in DOMAIN mem /\ mem[p].type = "LazyRead"}) <= 1

-----------------------------------------------------------------------------
(* The claims about partial_eval and church2int called on their own         *)

\* partial_eval(node) returned r: r is no application and no indirection, and
\* node is r or an I1 cell whose arg1 chain ends at r
ReturnOk(m, node, r) ==
  /\ Deref(m, r).type \notin {"A", "I1"}
  /\ I1End(m, node, Fuel) = [p |-> r, fault |-> ""]

\* C18: when partial_eval(node) returns r, the tag of r is neither A nor I1 and
\* node (its copy, if a collection moved it) is r itself or an I1 cell whose
\* arg1 chain ends at r: the outermost call, whose node the caller rooted, and
\* the calls of the Inc case, whose node is arg2 of the rooted e
C18_ReturnsUpdatedWhnf ==
  /\ (pc = "ret" /\ (ret_to = "eval" => ~snap.taken))
        => ReturnOk(mem, roots[church2int_root], cur)
  /\ (pc = "eval" /\ depth > 0 /\ U.kind = "return")
        => ReturnOk(U.mem, U.mem[IncE].arg2, U.cur)

C18_Witness ==
  /\ pc = "eval" /\ depth > 0 /\ U.kind = "return"
  /\ Deref(U.mem, U.mem[IncE].arg2).type = "I1"
  /\ U.cur # U.mem[IncE].arg2
  /\ last_gc.ran /\ InActive(IncE)

\* the left spine below p ends at a cell that is no application: no arg1 on
\* the way is null or leads back into the spine
RECURSIVE Unwound(_, _, _)
Unwound(m, p, fuel) ==
  IF fuel = 0 \/ ~Mapped(m, p) THEN FALSE
  ELSE IF Deref(m, p).type \in {"A", "I1"} THEN Unwound(m, Deref(m, p).arg1, fuel - 1)
  ELSE TRUE

CellChildren(m, p) ==
  IF p \in DOMAIN m /\ m[p].type # "Num" THEN {m[p].arg1, m[p].arg2} \ {Null} ELSE {}

RECURSIVE ReachIn(_, _)
GrownIn(m, S) == S \cup UNION {CellChildren(m, p) : p \in S}
ReachIn(m, S) == IF GrownIn(m, S) = S THEN S ELSE ReachIn(m, GrownIn(m, S))

NoThread(m, S) == \A p \in S : (Mapped(m, p) /\ Deref(m, p).type = "A") => Unwound(m, p, Fuel)

\* C20: when partial_eval returns, no application cell keeps a threading
\* pointer in arg1: after the outermost call, none reachable from the roots and
\* none in the allocated part of the active arena; after a call of the Inc
\* case, none reachable from the node it was called on
C20_SpineUnwound ==
  /\ pc = "ret" => NoThread(mem, Reach(Held) \cup (from_space_start .. (next_alloc - 1)))
  /\ (pc = "eval" /\ depth > 0 /\ U.kind = "return")
        => NoThread(U.mem, ReachIn(U.mem, {U.mem[IncE].arg2}))

\* the outermost call returns a number above 0, so calls of the Inc case ran
\* inside it; a collection inside it moved a threaded spine (the roots e and
\* prev of check_rooted, prev an application cell whose arg1 was a
\* back-pointer), and the graph the roots hold still has applications
C20_Witness ==
  /\ pc = "ret" /\ Result >= 1
  /\ last_gc.ran
  /\ Len(last_gc.was.roots) = 4
  /\ last_gc.was.roots[4] # Null
  /\ last_gc.was.mem[last_gc.was.roots[4]].type = "A"
  /\ Forwarded(last_gc, last_gc.was.roots[church2int_root]) = roots[church2int_root]
  /\ \E p \in Reach(Held) : Mapped(mem, p) /\ Deref(mem, p).type = "A"

\* C14: the root stack index stays inside the root table, 2 <= root_stack_top
\* <= MAX_ROOTS, and root() writes no slot past the last one, whatever
\* integer the program emits
C14_RootsInsideTable ==
  /\ Len(roots) >= 2 /\ Len(roots) <= MAX_ROOTS
  /\ err # "root written past roots[MAX_ROOTS - 1]"

\* The reference of C5: a recursive normal-order evaluator over the same
\* graph, with I x -> x, K x y -> x, S x y z -> (x z)(y z), each application
\* updated where it stands so that a shared argument is reduced once
RefMachine ==
  [H EXCEPT !.size = RefHeap, !.from = space1, !.to = space2(RefHeap),
            !.next_alloc = space1, !.mem = [a \in Arena(RefHeap) |-> ZeroCell],
            !.roots = <<Null, Null>>, !.post = NoGc]

SetCell(h, e, t, a1, a2) == [h EXCEPT !.mem = Rewrite(@, e, t, a1, a2)]

RECURSIVE RefEval(_, _, _)

RefS2(h, node, f, x) ==
  SetCell(New(New(h, "A", f.arg1, x), "A", f.arg2, x),
          node, "A", h.next_alloc, h.next_alloc + 1)

RefRule(h, node, f, x, fuel) ==
  CASE f.type = "I" -> RefEval(SetCell(h, node, "I1", x, Null), x, fuel)
    [] f.type = "K" -> Ret(SetCell(h, node, "K1", x, Null), node)
    [] f.type = "K1" -> RefEval(SetCell(h, node, "I1", f.arg1, Null), f.arg1, fuel)
    [] f.type = "S" -> Ret(SetCell(h, node, "S1", x, Null), node)
    [] f.type = "S1" -> Ret(SetCell(h, node, "S2", f.arg1, x), node)
    [] f.type = "S2" -> RefEval(RefS2(h, node, f, x), node, fuel)
    [] OTHER -> Bad(h)

RefApply(hf, node, fuel) ==
  IF hf.bad THEN hf
  ELSE RefRule(hf, node, Deref(hf.mem, hf.p), hf.mem[node].arg2, fuel)

RefEval(h, node, fuel) ==
  IF fuel = 0 \/ h.next_alloc + 2 > from_space_end(h) THEN Bad(h)
  ELSE CASE Deref(h.mem, node).type = "I1" -> RefEval(h, h.mem[node].arg1, fuel - 1)
         [] Deref(h.mem, node).type = "A" ->
              RefApply(RefEval(h, h.mem[node].arg1, fuel - 1), node, fuel - 1)
         [] OTHER -> Ret(h, node)

RefFrom(b) == RefEval(b, b.p, Fuel)
Reference(t) == RefFrom(BuildTerm(RefMachine, t))

\* the expression a cell denotes, indirections skipped
RECURSIVE ReadBack(_, _, _)
ReadBack(m, p, d) ==
  IF d = 0 \/ ~Mapped(m, p) THEN <<"?">>
  ELSE CASE Deref(m, p).type = "I1" -> ReadBack(m, Deref(m, p).arg1, d - 1)
         [] Deref(m, p).type \in {"A", "S2"} ->
              <<Deref(m, p).type>> \o ReadBack(m, Deref(m, p).arg1, d - 1)
                                   \o ReadBack(m, Deref(m, p).arg2, d - 1)
         [] Deref(m, p).type \in {"K1", "S1"} ->
              <<Deref(m, p).type>> \o ReadBack(m, Deref(m, p).arg1, d - 1)
         [] OTHER -> <<Deref(m, p).type>>

SameWhnf(r) ==
  /\ Deref(mem, cur).type = Deref(r.mem, r.p).type
  /\ ReadBack(mem, cur, ReadDepth) = ReadBack(r.mem, r.p, ReadDepth)

Combinators(t) == \A i \in 1 .. Len(t) : t[i] \in Leaves \cup {"A", "I1"}

\* C5: on a graph of A, S, K, I, K1, S1, S2, I1 cells on which the reference
\* evaluator ends, partial_eval ends too (it returns, or the heap is used up),
\* and the cell it returns has the head tag and, indirections aside, the
\* arguments of the reference's weak head normal form
C5_SameWhnfAsReference ==
  (Combinators(program[1]) /\ ~Reference(program[1]).bad) =>
     /\ (pc = "ret" /\ ~snap.taken) => SameWhnf(Reference(program[1]))
     /\ pc = "done" => exit_code \in {0, 4}

\* S I I (I K): the argument I K is shared by both copies the S2 rule makes
SharedArg == <<"A", "A", "SI", "I", "A", "I", "K">>

C5_Witness ==
  /\ program = <<SharedArg>>
  /\ pc = "ret" /\ ~snap.taken
  /\ ReadBack(mem, cur, ReadDepth) = <<"K1", "A", "I", "K">>

\* C7: partial_eval called on the cell partial_eval returned returns that very
\* cell, rewrites no cell, allocates nothing and reads no input
C7_SecondCallChangesNothing ==
  snap.taken =>
     /\ mem = snap.mem
     /\ next_alloc = snap.next_alloc
     /\ input = snap.input
     /\ pc \in {"eval", "ret", "done"}
     /\ pc \in {"ret", "done"} => (cur = snap.res /\ exit_code \in {-1, 0})

C7_Witness ==
  /\ snap.taken /\ pc = "ret"
  /\ cur = snap.res
  /\ last_gc.ran
  /\ Len(stdin) > Len(input)
  /\ InActive(cur)

\* C6: church2int(ccc[n]) is n, for every entry n of the cache that startup
\* filled
C6_DecodeCacheEntry ==
  ret_to = "decode" =>
     /\ pc = "ch" => Result = snap.n
     /\ pc = "done" => exit_code \in {0, 4}

C6_Witness ==
  /\ ret_to = "decode" /\ pc = "ch"
  /\ snap.n = EOFCode
  /\ Result = EOFCode
  /\ last_gc.ran

IncCase == pc = "eval" /\ depth > 0 /\ U.kind = "return"
IncArg == to_number(Deref(U.mem, U.cur))

\* C9 as stated: Inc applied to Num(n) with n the largest int ends the process
\* with exit code 3
IncMaxExits3 == (IncCase /\ IncArg = IntMax) => (pc' = "done" /\ exit_code' = 3)
IncStep ==
  /\ (IncCase /\ Deref(U.mem, U.cur).type # "Num")
        => (pc' = "done" /\ exit_code' = 3 /\ err' = IncMsg)
  /\ (IncCase /\ Deref(U.mem, U.cur).type = "Num" /\ IncArg >= 0 /\ IncArg < IntMax)
        => (mem'[cur'] = Expr("Num", IncArg + 1, Null) /\ cur' = IncE /\ pc' = "eval")
  /\ (IncCase /\ Deref(U.mem, U.cur).type = "Num" /\ IncArg = IntMax)
        => exit_code' # 3
  /\ exit_code' = 3 => Deref(U.mem, U.cur).type # "Num"

====
